---- MODULE Spec2Model ----
(***************************************************************************)
(* MongoManager: a dotted-path accessor over a document store              *)
(* (mongo_manager/manager.py), its nested-dict helpers                      *)
(* (mongo_manager/misc.py) and the read-through LRU cache                   *)
(* (mongo_manager/cacher.py).                                               *)
(*                                                                         *)
(* Python strings are sequences of one-character strings, so that           *)
(* str.split, str.startswith and int() are computed and not assumed.        *)
(* Python values are records with a tag t and one payload field per kind.   *)
(***************************************************************************)
EXTENDS Integers, Sequences, FiniteSets, TLC

\* db: the store; cache: the LRU of the cached manager; last: the last call
\* and its outcome; tasks: the coroutines suspended at an await
VARIABLES db, cache, last, tasks

vars == <<db, cache, last, tasks>>

(***************************************************************************)
(* Python values                                                           *)
(***************************************************************************)
NoneV == [t |-> "none", n |-> 0, s |-> <<>>, l |-> <<>>, d |-> <<>>]

IntV(n) == [t |-> "int", n |-> n, s |-> <<>>, l |-> <<>>, d |-> <<>>]

StrV(s) == [t |-> "str", n |-> 0, s |-> s, l |-> <<>>, d |-> <<>>]

ListV(l) == [t |-> "list", n |-> 0, s |-> <<>>, l |-> l, d |-> <<>>]

DictV(d) == [t |-> "dict", n |-> 0, s |-> <<>>, l |-> <<>>, d |-> d]

BoolV(b) == [t |-> "bool", n |-> IF b THEN 1 ELSE 0, s |-> <<>>, l |-> <<>>, d |-> <<>>]

\* bool(v) of a value, as an if-condition takes it
Truthy(v) ==
    CASE v.t = "none" -> FALSE
      [] v.t = "int" -> v.n # 0
      [] v.t = "bool" -> v.n # 0
      [] v.t = "str" -> v.s # <<>>
      [] v.t = "list" -> v.l # <<>>
      [] v.t = "dict" -> DOMAIN v.d # {}

\* one-key mapping {k: v}
One(k, v) == [x \in {k} |-> v]

\* {**a, **b}: the keys of b win
Merge(a, b) ==
    [k \in DOMAIN a \cup DOMAIN b |-> IF k \in DOMAIN b THEN b[k] ELSE a[k]]

\* d with key k dropped
Without(d, k) == [x \in DOMAIN d \ {k} |-> d[x]]

ID == <<"_", "i", "d">>

(***************************************************************************)
(* str methods                                                             *)
(***************************************************************************)
Dot == "."

HasDot(s) == \E i \in 1..Len(s) : s[i] = Dot

FirstDot(s) == CHOOSE i \in 1..Len(s) : s[i] = Dot /\ \A j \in 1..(i - 1) : s[j] # Dot

\* s.split(".", n); n < 0 is no limit
RECURSIVE SplitN(_, _)
SplitN(s, n) ==
    IF n = 0 \/ ~HasDot(s)
    THEN <<s>>
    ELSE LET i == FirstDot(s)
         IN  <<SubSeq(s, 1, i - 1)>> \o SplitN(SubSeq(s, i + 1, Len(s)), n - 1)

\* s.split(".")
Split(s) == SplitN(s, -1)

\* a prefix test that stops at segment borders
StartsWithSegment(s, p) ==
    s = p \/ (Len(p) < Len(s) /\ SubSeq(s, 1, Len(p) + 1) = p \o <<Dot>>)

\* s.startswith(p)
StartsWith(s, p) == Len(p) <= Len(s) /\ SubSeq(s, 1, Len(p)) = p

Digits == {"0", "1", "2", "3", "4", "5", "6", "7", "8", "9"}

DigitVal(ch) ==
    CASE ch = "0" -> 0 [] ch = "1" -> 1 [] ch = "2" -> 2 [] ch = "3" -> 3
      [] ch = "4" -> 4 [] ch = "5" -> 5 [] ch = "6" -> 6 [] ch = "7" -> 7
      [] ch = "8" -> 8 [] ch = "9" -> 9

RECURSIVE DecimalValue(_)
DecimalValue(s) ==
    IF s = <<>> THEN 0
    ELSE 10 * DecimalValue(SubSeq(s, 1, Len(s) - 1)) + DigitVal(s[Len(s)])

\* int(s) succeeds (over the characters the paths here are made of)
IsIntLiteral(s) == s # <<>> /\ \A i \in 1..Len(s) : s[i] \in Digits

(***************************************************************************)
(* misc.py                                                                 *)
(***************************************************************************)
\* maybe_int without the conversion: the segment is kept as it is
maybe_int_kept(s) == StrV(s)

\* maybe_int: the finally-return swallows int()'s ValueError
maybe_int(s) == IF IsIntLiteral(s) THEN IntV(DecimalValue(s)) ELSE StrV(s)

RECURSIVE NestKeys(_, _)
NestKeys(keys, value) ==
    IF Len(keys) = 1
    THEN DictV(One(keys[1], value))
    ELSE DictV(One(Head(keys), NestKeys(Tail(keys), value)))

\* create_nested_dict(path, value), path a str
create_nested_dict(path, value) ==
    IF path = <<>> THEN value ELSE NestKeys(Split(path), value)

\* the loop of find_in_nested_dict: find_in[key] raises KeyError on a mapping
\* without the key and TypeError on anything that is not a mapping
RECURSIVE FindKeys(_, _, _)
FindKeys(find_in, keys, default) ==
    IF keys = <<>> THEN find_in
    ELSE IF find_in.t = "dict" /\ Head(keys) \in DOMAIN find_in.d
         THEN FindKeys(find_in.d[Head(keys)], Tail(keys), default)
         ELSE default

\* find_in_nested_dict(find_in, path, default=default), path a str
find_in_nested_dict(find_in, path, default) ==
    FindKeys(find_in, Split(path), default)

(***************************************************************************)
(* The document store the manager talks to (motor / MongoDB): a database    *)
(* is a function from collection names to sets of documents, a document a   *)
(* mapping with an "_id" key that is unique within its collection.           *)
(* Array elements are scalars throughout.                                    *)
(***************************************************************************)
\* self._db[name]: the client refuses an empty collection name (InvalidName)
ValidCollectionName(name) == name # <<>>

HasDoc(database, coll, id) == \E doc \in database[coll] : doc[ID] = id

TheDoc(database, coll, id) == CHOOSE doc \in database[coll] : doc[ID] = id

\* an inclusion projection {path: 1}, path split on every dot
RECURSIVE ProjectFields(_, _)
ProjectFields(d, keys) ==
    LET k == Head(keys)
    IN  IF k \notin DOMAIN d THEN <<>>
        ELSE IF Len(keys) = 1 THEN One(k, d[k])
        ELSE IF d[k].t = "dict"
             THEN One(k, DictV(ProjectFields(d[k].d, Tail(keys))))
        ELSE IF d[k].t = "list" THEN One(k, ListV(<<>>))
        ELSE <<>>

\* collection.find_one({"_id": id}, None): the whole document, or None
find_one_whole(database, coll, id) ==
    IF HasDoc(database, coll, id) THEN DictV(TheDoc(database, coll, id)) ELSE NoneV

\* collection.find_one({"_id": id}, {"_id": 1}): the document's _id alone
find_one_id(database, coll, id) ==
    IF HasDoc(database, coll, id)
    THEN DictV(One(ID, TheDoc(database, coll, id)[ID]))
    ELSE NoneV

\* collection.find_one({"_id": id}, {"_id": 0, path: 1})
find_one_field(database, coll, id, path) ==
    IF HasDoc(database, coll, id)
    THEN DictV(ProjectFields(Without(TheDoc(database, coll, id), ID), Split(path)))
    ELSE NoneV

\* collection.find_one({"_id": id}, {path: 1}): _id comes along by default
find_one_field_id(database, coll, id, path) ==
    IF HasDoc(database, coll, id)
    THEN LET doc == TheDoc(database, coll, id)
         IN  DictV(Merge(One(ID, doc[ID]), ProjectFields(doc, Split(path))))
    ELSE NoneV

Ok(d) == [ok |-> TRUE, d |-> d]

Fail(d) == [ok |-> FALSE, d |-> d]

\* $set of one dotted field: intermediate mappings are created, a scalar or
\* an array on the way is a write error, and so is a change of _id
RECURSIVE SetField(_, _, _)
SetField(d, keys, value) ==
    LET k == Head(keys)
    IN  IF Len(keys) = 1
        THEN IF k = ID /\ k \in DOMAIN d /\ d[k] # value
             THEN Fail(d)
             ELSE Ok(Merge(d, One(k, value)))
        ELSE IF k \notin DOMAIN d
             THEN Ok(Merge(d, One(k, NestKeys(Tail(keys), value))))
        ELSE IF d[k].t = "dict"
             THEN LET r == SetField(d[k].d, Tail(keys), value)
                  IN  [ok |-> r.ok, d |-> Merge(d, One(k, DictV(r.d)))]
        ELSE Fail(d)

\* an update that replaces the body of the document by value
SetFields_replace(d, value) ==
    IF ID \in DOMAIN value /\ value[ID] # d[ID]
    THEN Fail(d)
    ELSE Ok(Merge(One(ID, d[ID]), value))

\* $set of a whole mapping: every top-level key of value is set, the other
\* fields of the document stay; a different _id in value is a write error
SetFields(d, value) ==
    IF ID \in DOMAIN value /\ value[ID] # d[ID]
    THEN Fail(d)
    ELSE Ok(Merge(d, value))

\* $push to one dotted field: a missing field becomes [value], an array is
\* appended to, anything else is a write error
RECURSIVE PushField(_, _, _)
PushField(d, keys, value) ==
    LET k == Head(keys)
    IN  IF k \notin DOMAIN d
        THEN Ok(Merge(d, NestKeys(keys, ListV(<<value>>)).d))
        ELSE IF Len(keys) = 1
             THEN IF d[k].t = "list"
                  THEN Ok(Merge(d, One(k, ListV(Append(d[k].l, value)))))
                  ELSE Fail(d)
        ELSE IF d[k].t = "dict"
             THEN LET r == PushField(d[k].d, Tail(keys), value)
                  IN  [ok |-> r.ok, d |-> Merge(d, One(k, DictV(r.d)))]
        ELSE Fail(d)

\* l without the first element equal to value
RECURSIVE RemoveFirst(_, _)
RemoveFirst(l, value) ==
    IF l = <<>> THEN <<>>
    ELSE IF Head(l) = value THEN Tail(l)
    ELSE <<Head(l)>> \o RemoveFirst(Tail(l), value)

\* the elements of l that differ from value, in their order
RECURSIVE Remove(_, _)
Remove(l, value) ==
    IF l = <<>> THEN <<>>
    ELSE IF Head(l) = value THEN Remove(Tail(l), value)
    ELSE <<Head(l)>> \o Remove(Tail(l), value)

\* $pull from one dotted field: every element equal to value goes; a
\* missing field is left alone; a field that is no array is a write error
RECURSIVE PullField(_, _, _)
PullField(d, keys, value) ==
    LET k == Head(keys)
    IN  IF k \notin DOMAIN d THEN Ok(d)
        ELSE IF Len(keys) = 1
             THEN IF d[k].t = "list"
                  THEN Ok(Merge(d, One(k, ListV(Remove(d[k].l, value)))))
                  ELSE Fail(d)
        ELSE IF d[k].t = "dict"
             THEN LET r == PullField(d[k].d, Tail(keys), value)
                  IN  [ok |-> r.ok, d |-> Merge(d, One(k, DictV(r.d)))]
        ELSE Ok(d)

\* an $unset that drops the top-level field the dotted path starts with
RECURSIVE UnsetField_top(_, _)
UnsetField_top(d, keys) ==
    IF Head(keys) = ID THEN Fail(d) ELSE Ok(Without(d, Head(keys)))

\* $unset of one dotted field: the field goes if it is there; _id cannot
RECURSIVE UnsetField(_, _)
UnsetField(d, keys) ==
    LET k == Head(keys)
    IN  IF k \notin DOMAIN d THEN Ok(d)
        ELSE IF Len(keys) = 1
             THEN IF k = ID THEN Fail(d) ELSE Ok(Without(d, k))
        ELSE IF d[k].t = "dict"
             THEN LET r == UnsetField(d[k].d, Tail(keys))
                  IN  [ok |-> r.ok, d |-> Merge(d, One(k, DictV(r.d)))]
        ELSE Ok(d)

\* the collection with the document of this id replaced
Replace(database, coll, id, doc) ==
    [database EXCEPT ![coll] = (@ \ {TheDoc(database, coll, id)}) \cup {doc}]

\* collection.insert_one(doc): a second document with the same _id is refused
insert_one(database, coll, doc) ==
    IF HasDoc(database, coll, doc[ID])
    THEN [ok |-> FALSE, db |-> database]
    ELSE [ok |-> TRUE, db |-> [database EXCEPT ![coll] = @ \cup {doc}]]

\* the update documents the manager sends
SetOf(path, value) == [op |-> "$set", path |-> path, value |-> value]

PushOf(path, value) == [op |-> "$push", path |-> path, value |-> value]

PullOf(path, value) == [op |-> "$pull", path |-> path, value |-> value]

UnsetOf(path) == [op |-> "$unset", path |-> path, value |-> NoneV]

\* an update document applied to one document; {"$set": value} has path ""
ApplyUpdate(d, u) ==
    CASE u.op = "$set" ->
           IF u.path = <<>> THEN SetFields(d, u.value.d)
           ELSE SetField(d, Split(u.path), u.value)
      [] u.op = "$push" -> PushField(d, Split(u.path), u.value)
      [] u.op = "$pull" -> PullField(d, Split(u.path), u.value)
      [] u.op = "$unset" -> UnsetField(d, Split(u.path))

\* collection.update_one({"_id": id}, update): no matching document, no change
update_one(database, coll, id, u) ==
    IF ~HasDoc(database, coll, id) THEN [ok |-> TRUE, db |-> database]
    ELSE LET r == ApplyUpdate(TheDoc(database, coll, id), u)
         IN  IF r.ok
             THEN [ok |-> TRUE, db |-> Replace(database, coll, id, r.d)]
             ELSE [ok |-> FALSE, db |-> database]

\* collection.delete_one({"_id": id})
delete_one(database, coll, id) ==
    [database EXCEPT ![coll] = {doc \in @ : doc[ID] # id}]

\* collection.drop()
drop(database, coll) == [database EXCEPT ![coll] = {}]

(***************************************************************************)
(* manager.py: MongoManager                                                *)
(***************************************************************************)
\* what a call gives back: the database after it, the exception it raised
\* ("none" when it returned), its return value and the store round trips
\* it issued
Outcome(database, err, res, io) ==
    [db |-> database, err |-> err, res |-> res, io |-> io]

Raise(database, err, io) == Outcome(database, err, NoneV, io)

\* _parse_path
_parse_path(path) ==
    LET parts == SplitN(path, 2)
    IN  IF Len(parts) < 2
        THEN [err |-> "ValueError", coll |-> <<>>, id |-> NoneV, path |-> <<>>]
        ELSE IF ~ValidCollectionName(parts[1])
        THEN [err |-> "InvalidName", coll |-> <<>>, id |-> NoneV, path |-> <<>>]
        ELSE [err |-> "none", coll |-> parts[1], id |-> maybe_int(parts[2]),
              path |-> IF Len(parts) > 2 THEN parts[3] ELSE <<>>]

\* value in container: membership in a list, key membership in a mapping;
\* on None or a number, and for a number in a str, Python raises TypeError
CanContain(container) == container.t \in {"list", "dict"}

PyIn(value, container) ==
    CASE container.t = "list" -> \E i \in 1..Len(container.l) : container.l[i] = value
      [] container.t = "dict" -> value.t = "str" /\ value.s \in DOMAIN container.d
      [] OTHER -> FALSE

\* the find_one of get: {"_id": 0, path: 1} if path else None
GetFind(database, p) ==
    IF p.path # <<>>
    THEN find_one_field(database, p.coll, p.id, p.path)
    ELSE find_one_whole(database, p.coll, p.id)

\* a get that reads the store again when it resumes
GetAfterFind_reread(p, default, doc) ==
    find_in_nested_dict(GetFind(db, p), p.path, default)

\* get from the return of its find_one on: the value in the document read
GetAfterFind(p, default, doc) == find_in_nested_dict(doc, p.path, default)

\* MongoManager.get
ManagerGet(database, path, default) ==
    LET p == _parse_path(path)
    IN  IF p.err # "none" THEN Raise(database, p.err, <<>>)
        ELSE Outcome(database, "none",
                     GetAfterFind(p, default, GetFind(database, p)), <<"find_one">>)

\* the check of set left out
NotADocument_unchecked(path, value) == FALSE

\* not path and not isinstance(value, dict)
NotADocument(path, value) == path = <<>> /\ value.t # "dict"

\* set from the return of its find_one on: update_one when a document was
\* found, insert_one when none was, against the store as it is by then
SetAfterFind(database, p, value, doc) ==
    IF Truthy(doc)
    THEN LET r == update_one(database, p.coll, p.id, SetOf(p.path, value))
         IN  IF r.ok
             THEN Outcome(r.db, "none", NoneV, <<"find_one", "update_one">>)
             ELSE Raise(database, "WriteError", <<"find_one", "update_one">>)
    ELSE LET r == insert_one(database, p.coll,
                      Merge(One(ID, p.id), create_nested_dict(p.path, value).d))
         IN  IF r.ok
             THEN Outcome(r.db, "none", NoneV, <<"find_one", "insert_one">>)
             ELSE Raise(database, "DuplicateKeyError", <<"find_one", "insert_one">>)

\* MongoManager.set
ManagerSet(database, path, value) ==
    LET p == _parse_path(path)
    IN  IF p.err # "none" THEN Raise(database, p.err, <<>>)
        ELSE IF NotADocument(p.path, value)
        THEN Raise(database, "ValueError", <<>>)
        ELSE SetAfterFind(database, p, value, find_one_id(database, p.coll, p.id))

\* MongoManager.push
ManagerPush(database, path, value, allow_duplicates) ==
    LET p == _parse_path(path)
    IN  IF p.err # "none" THEN Raise(database, p.err, <<>>)
        ELSE IF p.path = <<>> THEN Raise(database, "ValueError", <<>>)
        ELSE LET doc == find_one_id(database, p.coll, p.id)
                 found == find_in_nested_dict(doc, p.path, ListV(<<>>))
             IN  IF ~Truthy(doc)
                 THEN LET r == insert_one(database, p.coll,
                                   Merge(One(ID, p.id),
                                         create_nested_dict(p.path, ListV(<<value>>)).d))
                      IN  IF r.ok
                          THEN Outcome(r.db, "none", BoolV(TRUE), <<"find_one", "insert_one">>)
                          ELSE Raise(database, "DuplicateKeyError", <<"find_one", "insert_one">>)
                 ELSE IF ~allow_duplicates /\ ~CanContain(found)
                 THEN Raise(database, "TypeError", <<"find_one">>)
                 ELSE IF allow_duplicates \/ ~PyIn(value, found)
                 THEN LET r == update_one(database, p.coll, p.id, PushOf(p.path, value))
                      IN  IF r.ok
                          THEN Outcome(r.db, "none", BoolV(TRUE), <<"find_one", "update_one">>)
                          ELSE Raise(database, "WriteError", <<"find_one", "update_one">>)
                 ELSE Outcome(database, "none", BoolV(FALSE), <<"find_one">>)

\* MongoManager.pull
ManagerPull(database, path, value) ==
    LET p == _parse_path(path)
    IN  IF p.err # "none" THEN Raise(database, p.err, <<>>)
        ELSE IF p.path = <<>> THEN Raise(database, "ValueError", <<>>)
        ELSE LET doc == find_one_field_id(database, p.coll, p.id, p.path)
                 found == find_in_nested_dict(doc, p.path, ListV(<<>>))
             IN  IF ~CanContain(found)
                 THEN Raise(database, "TypeError", <<"find_one">>)
                 ELSE IF PyIn(value, found)
                 THEN LET r == update_one(database, p.coll, p.id, PullOf(p.path, value))
                      IN  IF r.ok
                          THEN Outcome(r.db, "none", BoolV(TRUE), <<"find_one", "update_one">>)
                          ELSE Raise(database, "WriteError", <<"find_one", "update_one">>)
                 ELSE Outcome(database, "none", BoolV(FALSE), <<"find_one">>)

\* MongoManager.rem; str.split never returns an empty list
ManagerRem(database, path) ==
    LET parts == SplitN(path, 2)
    IN  IF parts = <<>> THEN Raise(database, "ValueError", <<>>)
        ELSE IF ~ValidCollectionName(parts[1]) THEN Raise(database, "InvalidName", <<>>)
        ELSE IF Len(parts) = 1
        THEN Outcome(drop(database, parts[1]), "none", NoneV, <<"drop">>)
        ELSE IF Len(parts) = 2
        THEN Outcome(delete_one(database, parts[1], maybe_int(parts[2])),
                     "none", NoneV, <<"delete_one">>)
        ELSE LET r == update_one(database, parts[1], maybe_int(parts[2]), UnsetOf(parts[3]))
             IN  IF r.ok
                 THEN Outcome(r.db, "none", NoneV, <<"update_one">>)
                 ELSE Raise(database, "WriteError", <<"update_one">>)

(***************************************************************************)
(* cacher.py: the LRU of lru-dict, most recently used entry first           *)
(***************************************************************************)
Entry(k, v) == [k |-> k, v |-> v]

\* key in self._cache: recency is not touched
LRUHas(c, key) == \E i \in 1..Len(c) : c[i].k = key

LRUIndex(c, key) == CHOOSE i \in 1..Len(c) : c[i].k = key

LRURemoveAt(c, i) == SubSeq(c, 1, i - 1) \o SubSeq(c, i + 1, Len(c))

\* self._cache[key], the value
LRUValue(c, key) == c[LRUIndex(c, key)].v

\* a read of an entry that leaves its place as it is
LRUTouch_still(c, key) == c

\* self._cache[key], the cache afterwards: the entry moves to the front
LRUTouch(c, key) ==
    LET i == LRUIndex(c, key) IN <<c[i]>> \o LRURemoveAt(c, i)

\* self._cache[key] = value with room for size entries
LRUSetItem(c, key, value, size) ==
    LET rest == IF LRUHas(c, key) THEN LRURemoveAt(c, LRUIndex(c, key)) ELSE c
        all == <<Entry(key, value)>> \o rest
    IN  SubSeq(all, 1, IF Len(all) > size THEN size ELSE Len(all))

\* del self._cache[key] of a key that is there
LRUDelItem(c, key) == LRURemoveAt(c, LRUIndex(c, key))

\* the entries of c whose key does not start with prefix, in their order
RECURSIVE DropPrefixed(_, _)
DropPrefixed(c, prefix) ==
    IF c = <<>> THEN <<>>
    ELSE IF StartsWith(Head(c).k, prefix) THEN DropPrefixed(Tail(c), prefix)
    ELSE <<Head(c)>> \o DropPrefixed(Tail(c), prefix)

\* uncache(key, match=match) of one str key
UncacheKey(c, key, match) ==
    IF match
    THEN IF LRUHas(c, key)
         THEN [cache |-> LRUDelItem(c, key), err |-> "none"]
         ELSE [cache |-> c, err |-> "KeyError"]
    ELSE [cache |-> DropPrefixed(c, key), err |-> "none"]

\* uncache(keys, match=match) of a list: one key after the other, the first
\* exception ends the loop
RECURSIVE UncacheList(_, _, _)
UncacheList(c, keys, match) ==
    IF keys = <<>> THEN [cache |-> c, err |-> "none"]
    ELSE LET r == UncacheKey(c, Head(keys), match)
         IN  IF r.err # "none" THEN r ELSE UncacheList(r.cache, Tail(keys), match)

\* the cached manager's outcome: the manager's, and the cache afterwards
CachedOutcome(r, c) ==
    [db |-> r.db, cache |-> c, err |-> r.err, res |-> r.res, io |-> r.io]

\* a get that goes to the store whether or not the path is cached
CachedGet_through(database, c, path, default, size) ==
    LET r == ManagerGet(database, path, default)
    IN  IF r.err # "none" THEN CachedOutcome(r, c)
        ELSE CachedOutcome(r, LRUSetItem(c, path, r.res, size))

\* CachedMongoManager.get
CachedGet(database, c, path, default, size) ==
    IF LRUHas(c, path)
    THEN CachedOutcome(Outcome(database, "none", LRUValue(c, path), <<>>),
                       LRUTouch(c, path))
    ELSE LET r == ManagerGet(database, path, default)
         IN  IF r.err # "none" THEN CachedOutcome(r, c)
             ELSE CachedOutcome(r, LRUSetItem(c, path, r.res, size))

\* the cached writes without their invalidation
ThenUncache_never(r, c, path) == CachedOutcome(r, c)

\* the cached writes with the invalidation in a finally clause
ThenUncache_finally(r, c, path) ==
    LET u == UncacheKey(c, path, TRUE)
    IN  IF r.err # "none" THEN CachedOutcome(r, u.cache)
        ELSE IF u.err # "none"
             THEN CachedOutcome(Raise(r.db, u.err, r.io), u.cache)
             ELSE CachedOutcome(r, u.cache)

\* the tail shared by the cached set, push, pull and rem: the wrapped call
\* has returned r, then self.uncache(path)
ThenUncache(r, c, path) ==
    IF r.err # "none" THEN CachedOutcome(r, c)
    ELSE LET u == UncacheKey(c, path, TRUE)
         IN  IF u.err # "none"
             THEN CachedOutcome(Raise(r.db, u.err, r.io), u.cache)
             ELSE CachedOutcome(r, u.cache)

\* CachedMongoManager.set
CachedSet(database, c, path, value) ==
    ThenUncache(ManagerSet(database, path, value), c, path)

\* CachedMongoManager.push
CachedPush(database, c, path, value, allow_duplicates) ==
    ThenUncache(ManagerPush(database, path, value, allow_duplicates), c, path)

\* CachedMongoManager.pull
CachedPull(database, c, path, value) ==
    ThenUncache(ManagerPull(database, path, value), c, path)

\* CachedMongoManager.rem
CachedRem(database, c, path) ==
    ThenUncache(ManagerRem(database, path), c, path)

(***************************************************************************)
(* The calls explored                                                      *)
(***************************************************************************)
MaxListLen == 2

MaxItems == 2

A == <<"a">>

B == <<"b">>

Colls == {<<"c">>}

\* "", "c", "c.1", "c.01", "c.x", "c.1.a", "c.1.a.b"
Paths ==
    { <<>>,
      <<"c">>,
      <<"c", ".", "1">>,
      <<"c", ".", "0", "1">>,
      <<"c", ".", "x">>,
      <<"c", ".", "1", ".", "a">>,
      <<"c", ".", "1", ".", "a", ".", "b">> }

\* the paths pushed to and pulled from: "c", "c.1", "c.1.a", "c.1.a.b"
ListPaths ==
    { <<"c">>,
      <<"c", ".", "1">>,
      <<"c", ".", "1", ".", "a">>,
      <<"c", ".", "1", ".", "a", ".", "b">> }

\* 1, {"a": 2}, {"_id": 10}
Values == { IntV(1), DictV(One(A, IntV(2))), DictV(One(ID, IntV(10))) }

Elements == { IntV(1), IntV(2) }

Defaults == { NoneV, IntV(0) }

\* the paths read through the cache: "", "c.1", "c.1.a", "c.10.a"
CachedReadPaths ==
    { <<>>,
      <<"c", ".", "1">>,
      <<"c", ".", "1", ".", "a">>,
      <<"c", ".", "1", "0", ".", "a">> }

\* the paths written through the cache: "", "c", "c.1", "c.1.a"
CachedWritePaths ==
    { <<>>,
      <<"c">>,
      <<"c", ".", "1">>,
      <<"c", ".", "1", ".", "a">> }

\* the keys given to uncache: "", "c.1", "c.1.a", "c.10.a"
UncacheKeys == CachedReadPaths

\* the lists given to uncache: [], ["c.1.a", "c.10.a"], ["c.10.a", "c.1"]
UncacheLists ==
    { <<>>,
      << <<"c", ".", "1", ".", "a">>, <<"c", ".", "1", "0", ".", "a">> >>,
      << <<"c", ".", "1", "0", ".", "a">>, <<"c", ".", "1">> >> }

\* 1, {"a": 2}
CachedValues == { IntV(1), DictV(One(A, IntV(2))) }

CachedElements == { IntV(1) }

CachedDefaults == { NoneV }

\* the value at the field of path in the stored document, None without one
Stored(database, path) ==
    LET p == _parse_path(path)
    IN  IF p.err # "none" THEN NoneV
        ELSE FindKeys(find_one_whole(database, p.coll, p.id),
                      IF p.path = <<>> THEN <<>> ELSE Split(p.path), NoneV)

\* a push may not grow a list beyond MaxListLen
Room(database, path) ==
    LET v == Stored(database, path) IN v.t = "list" => Len(v.l) < MaxListLen

Call(op, path, value, dflt, flag) ==
    [op |-> op, path |-> path, keys |-> <<>>, value |-> value, dflt |-> dflt,
     flag |-> flag]

\* the record of the last call: its arguments, its outcome and the state
\* it started from
Done(call, r, database, c) ==
    [op |-> call.op, path |-> call.path, keys |-> call.keys, value |-> call.value,
     dflt |-> call.dflt, flag |-> call.flag,
     res |-> r.res, err |-> r.err, io |-> r.io, pre |-> database, preCache |-> c]

Init ==
    /\ db = [c \in Colls |-> {}]
    /\ cache = <<>>
    /\ tasks = <<>>
    /\ last = Done(Call("init", <<>>, NoneV, NoneV, FALSE),
                   Outcome(db, "none", NoneV, <<>>), db, <<>>)

Get ==
    \E path \in Paths, default \in Defaults :
        LET r == ManagerGet(db, path, default)
        IN  /\ db' = r.db
            /\ last' = Done(Call("get", path, NoneV, default, FALSE), r, db, cache)
            /\ UNCHANGED <<cache, tasks>>

Set ==
    \E path \in Paths, value \in Values :
        LET r == ManagerSet(db, path, value)
        IN  /\ db' = r.db
            /\ last' = Done(Call("set", path, value, NoneV, FALSE), r, db, cache)
            /\ UNCHANGED <<cache, tasks>>

Push ==
    \E path \in ListPaths, value \in Elements, allow_duplicates \in BOOLEAN :
        LET r == ManagerPush(db, path, value, allow_duplicates)
        IN  /\ Room(db, path)
            /\ db' = r.db
            /\ last' = Done(Call("push", path, value, NoneV, allow_duplicates), r, db, cache)
            /\ UNCHANGED <<cache, tasks>>

Pull ==
    \E path \in ListPaths, value \in Elements :
        LET r == ManagerPull(db, path, value)
        IN  /\ db' = r.db
            /\ last' = Done(Call("pull", path, value, NoneV, FALSE), r, db, cache)
            /\ UNCHANGED <<cache, tasks>>

Rem ==
    \E path \in Paths :
        LET r == ManagerRem(db, path)
        IN  /\ db' = r.db
            /\ last' = Done(Call("rem", path, NoneV, NoneV, FALSE), r, db, cache)
            /\ UNCHANGED <<cache, tasks>>

Next == Get \/ Set \/ Push \/ Pull \/ Rem

\* the plain MongoManager
Spec == Init /\ [][Next]_vars

CachedDone(call, r) == Done(call, r, db, cache)

CGet ==
    \E path \in CachedReadPaths, default \in CachedDefaults :
        LET r == CachedGet(db, cache, path, default, MaxItems)
        IN  /\ db' = r.db
            /\ cache' = r.cache
            /\ UNCHANGED tasks
            /\ last' = CachedDone(Call("get", path, NoneV, default, FALSE), r)

CSet ==
    \E path \in CachedWritePaths, value \in CachedValues :
        LET r == CachedSet(db, cache, path, value)
        IN  /\ db' = r.db
            /\ cache' = r.cache
            /\ UNCHANGED tasks
            /\ last' = CachedDone(Call("set", path, value, NoneV, FALSE), r)

CPush ==
    \E path \in CachedWritePaths, value \in CachedElements, allow_duplicates \in {TRUE} :
        LET r == CachedPush(db, cache, path, value, allow_duplicates)
        IN  /\ Room(db, path)
            /\ db' = r.db
            /\ cache' = r.cache
            /\ UNCHANGED tasks
            /\ last' = CachedDone(Call("push", path, value, NoneV, allow_duplicates), r)

CPull ==
    \E path \in CachedWritePaths, value \in CachedElements :
        LET r == CachedPull(db, cache, path, value)
        IN  /\ db' = r.db
            /\ cache' = r.cache
            /\ UNCHANGED tasks
            /\ last' = CachedDone(Call("pull", path, value, NoneV, FALSE), r)

CRem ==
    \E path \in CachedWritePaths :
        LET r == CachedRem(db, cache, path)
        IN  /\ db' = r.db
            /\ cache' = r.cache
            /\ UNCHANGED tasks
            /\ last' = CachedDone(Call("rem", path, NoneV, NoneV, FALSE), r)

\* uncache(key, match=match), key a str
Uncache ==
    \E key \in UncacheKeys, match \in BOOLEAN :
        LET u == UncacheKey(cache, key, match)
        IN  /\ cache' = u.cache
            /\ last' = CachedDone(Call("uncache", key, NoneV, NoneV, match),
                                  Outcome(db, u.err, NoneV, <<>>))
            /\ UNCHANGED <<db, tasks>>

\* uncache(keys, match=match), keys a list
UncacheAll ==
    \E keys \in UncacheLists, match \in BOOLEAN :
        LET u == UncacheList(cache, keys, match)
        IN  /\ cache' = u.cache
            /\ last' = [CachedDone(Call("uncache_list", <<>>, NoneV, NoneV, match),
                                   Outcome(db, u.err, NoneV, <<>>))
                        EXCEPT !.keys = keys]
            /\ UNCHANGED <<db, tasks>>

CachedNext == CGet \/ CSet \/ CPush \/ CPull \/ CRem \/ Uncache \/ UncacheAll

\* the CachedMongoManager
CachedSpec == Init /\ [][CachedNext]_vars

(***************************************************************************)
(* Properties                                                              *)
(***************************************************************************)
\* the last call's path parsed, and what the store held for it before the call
LastPath == _parse_path(last.path)

Parsed == LastPath.err = "none"

Existed == Parsed /\ HasDoc(last.pre, LastPath.coll, LastPath.id)

Returned == last.err = "none"

\* the keys of the last call's field-path
LastKeys == Split(LastPath.path)

\* the list the last call's field-path held before the call, a missing
\* document or field counting as the empty list
ListBefore ==
    FindKeys(find_one_whole(last.pre, LastPath.coll, LastPath.id), LastKeys, ListV(<<>>))

\* C1: get of a 2-segment path returns the whole stored document when the
\* document exists, and the default only when it does not.
C1_GetReturnsWholeDocument ==
    (last.op = "get" /\ Parsed /\ LastPath.path = <<>>) =>
        /\ Returned
        /\ last.res = IF Existed
                      THEN DictV(TheDoc(last.pre, LastPath.coll, LastPath.id))
                      ELSE last.dflt

\* C2: a set that returns, on a path of 2 or more segments whose id has no
\* document, adds exactly the document {_id: id} merged with the nested
\* mapping of field-path and value, the id an integer for a numeric segment
\* ("01" is 1) and the segment itself otherwise, and touches nothing else.
C2_SetInsertsDocument ==
    (last.op = "set" /\ Returned /\ ~Existed) =>
        LET doc == Merge(One(ID, LastPath.id),
                         create_nested_dict(LastPath.path, last.value).d)
        IN  /\ doc \notin last.pre[LastPath.coll]
            /\ db = [last.pre EXCEPT ![LastPath.coll] = @ \cup {doc}]
            /\ last.path = <<"c", ".", "0", "1">> => LastPath.id = IntV(1)
            /\ last.path = <<"c", ".", "x">> => LastPath.id = StrV(<<"x">>)
            /\ (last.path = <<"c", ".", "1", ".", "a", ".", "b">> /\ last.value = IntV(1))
                   => doc = Merge(One(ID, IntV(1)), One(A, DictV(One(B, IntV(1)))))
            /\ ID \notin DOMAIN create_nested_dict(LastPath.path, last.value).d
                   => doc[ID] = LastPath.id

\* a set of a nested field has created a document next to another one
C2_Witness ==
    /\ last.op = "set" /\ Returned /\ ~Existed
    /\ LastPath.path = <<"a", ".", "b">>
    /\ last.pre[LastPath.coll] # {}
    /\ Cardinality(db[LastPath.coll]) = Cardinality(last.pre[LastPath.coll]) + 1

\* C3: push with allow_duplicates=False of a value the list of an existing
\* document already holds returns false and leaves the store as it was.
C3_PushSuppressesDuplicate ==
    (/\ last.op = "push" /\ ~last.flag /\ Parsed /\ LastPath.path # <<>>
     /\ Existed /\ ListBefore.t = "list" /\ PyIn(last.value, ListBefore)) =>
        /\ Returned
        /\ last.res = BoolV(FALSE)
        /\ db = last.pre

\* C4: pull on a path of 3 or more segments returns false and changes
\* nothing when the value is not in the list; otherwise it returns true and
\* the list loses every occurrence of the value, the rest staying in order.
C4_PullRemovesAll ==
    (last.op = "pull" /\ Parsed /\ LastPath.path # <<>> /\ ListBefore.t = "list") =>
        /\ Returned
        /\ IF \E i \in 1..Len(ListBefore.l) : ListBefore.l[i] = last.value
           THEN /\ last.res = BoolV(TRUE)
                /\ LET old == TheDoc(last.pre, LastPath.coll, LastPath.id)
                       kept == SelectSeq(ListBefore.l, LAMBDA e : e # last.value)
                   IN  db = Replace(last.pre, LastPath.coll, LastPath.id,
                                    SetField(old, LastKeys, ListV(kept)).d)
           ELSE /\ last.res = BoolV(FALSE)
                /\ db = last.pre

\* a pull has removed both occurrences of a value at once
C4_Witness ==
    /\ last.op = "pull" /\ Returned /\ last.res = BoolV(TRUE)
    /\ ListBefore = ListV(<<last.value, last.value>>)
    /\ Stored(db, last.path) = ListV(<<>>)

\* C9: rem of the empty path is refused by the manager's own check, before
\* any collection is selected and any store operation is issued.
C9_RemEmptyPathRefused ==
    (last.op = "rem" /\ last.path = <<>>) =>
        /\ last.err = "ValueError"
        /\ last.io = <<>>
        /\ db = last.pre

\* the cached manager's writing calls, and what the wrapped MongoManager
\* call of the last one gives from the state it started in
Mutators == {"set", "push", "pull", "rem"}

Wrapped ==
    CASE last.op = "set" -> ManagerSet(last.pre, last.path, last.value)
      [] last.op = "push" -> ManagerPush(last.pre, last.path, last.value, last.flag)
      [] last.op = "pull" -> ManagerPull(last.pre, last.path, last.value)
      [] last.op = "rem" -> ManagerRem(last.pre, last.path)

WasCached == LRUHas(last.preCache, last.path)

\* p is a prefix of s, character by character
IsPrefix(p, s) == Len(p) <= Len(s) /\ \A i \in 1..Len(p) : s[i] = p[i]

DotCount(s) == Cardinality({i \in 1..Len(s) : s[i] = "."})

\* C5: on the cached manager, a set(p) that finds p cached evicts the entry,
\* and a get(p) issued right after such a set misses the cache: it reads
\* the store and returns what the store holds, not what was cached.
C5_SetEvictsThenGetReads ==
    [][/\ (last'.op = "set" /\ last'.err = "none" /\ LRUHas(cache, last'.path))
            => ~LRUHas(cache', last'.path)
       /\ (/\ last.op = "set" /\ last.err = "none" /\ WasCached
           /\ last'.op = "get" /\ last'.path = last.path)
            => /\ last'.io = <<"find_one">>
               /\ last'.res = ManagerGet(db, last.path, last'.dflt).res
               /\ last'.err = "none"]_vars

\* a set has changed a field whose old value was cached, and the entry is gone
C5_Witness ==
    /\ last.op = "set" /\ Returned /\ WasCached
    /\ ~LRUHas(cache, last.path)
    /\ LRUValue(last.preCache, last.path) # ManagerGet(db, last.path, NoneV).res

\* C6: exact-match invalidation of a key without an entry raises nothing
\* and leaves the cache alone, in uncache(key, match=True) itself and at
\* the end of a cached set, push, pull or rem, which then returns what the
\* wrapped call returned.
C6_UncacheAbsentKeyIsSilent ==
    /\ (last.op = "uncache" /\ last.flag /\ ~WasCached) =>
           (Returned /\ cache = last.preCache)
    /\ (last.op \in Mutators /\ ~WasCached /\ Wrapped.err = "none") =>
           (Returned /\ last.res = Wrapped.res /\ cache = last.preCache)

\* C7: a cached set, push, pull or rem whose wrapped call raises passes the
\* exception on and leaves the cache exactly as it was; the cache changes
\* only after the wrapped call has returned.
C7_FailedCallKeepsCache ==
    last.op \in Mutators =>
        /\ Wrapped.err # "none" =>
               (last.err = Wrapped.err /\ cache = last.preCache /\ db = last.pre)
        /\ cache # last.preCache => Wrapped.err = "none"

\* the store has refused a write to a path that is cached, and the entry stays
C7_Witness ==
    /\ last.op \in Mutators /\ last.err = "WriteError"
    /\ WasCached /\ cache = last.preCache

\* C8: set of a 2-segment path with a value that is no mapping raises
\* ValueError before any store round trip; store and cache stay as they were.
C8_SetScalarDocumentRefused ==
    (last.op = "set" /\ DotCount(last.path) = 1 /\ last.value.t # "dict") =>
        /\ last.err = "ValueError"
        /\ last.io = <<>>
        /\ db = last.pre
        /\ cache = last.preCache

\* the refused set was of a document that exists and whose path is cached
C8_Witness ==
    /\ last.op = "set" /\ DotCount(last.path) = 1 /\ last.value.t # "dict"
    /\ Existed /\ WasCached /\ last.err = "ValueError"

\* C10: uncache(key, match=False) removes exactly the entries whose key has
\* key as a string prefix and keeps the others in place; for a list of keys,
\* the entries whose key has any of them as a prefix.
C10_UncachePrefix ==
    /\ (last.op = "uncache" /\ ~last.flag) =>
           /\ Returned
           /\ cache = SelectSeq(last.preCache, LAMBDA e : ~IsPrefix(last.path, e.k))
    /\ (last.op = "uncache_list" /\ ~last.flag) =>
           /\ Returned
           /\ cache = SelectSeq(last.preCache,
                  LAMBDA e : ~\E i \in 1..Len(last.keys) : IsPrefix(last.keys[i], e.k))

\* uncache("c.1", match=False) has evicted the entry of "c.10.a"
C10_Witness ==
    /\ last.op = "uncache" /\ ~last.flag
    /\ last.path = <<"c", ".", "1">>
    /\ LRUHas(last.preCache, <<"c", ".", "1", "0", ".", "a">>)
    /\ ~LRUHas(cache, <<"c", ".", "1", "0", ".", "a">>)

\* C11: the cache never holds more than max_items entries; a get that misses
\* puts its key in front and, when the cache was full, drops exactly the
\* entry at the back, the least recently used one; a get that hits moves
\* its key to the front and keeps the others in their order.
C11_LRUBounded ==
    /\ Len(cache) <= MaxItems
    /\ (last.op = "get" /\ Returned /\ ~WasCached) =>
           cache = <<Entry(last.path, last.res)>>
                   \o (IF Len(last.preCache) = MaxItems
                       THEN SubSeq(last.preCache, 1, MaxItems - 1)
                       ELSE last.preCache)
    /\ (last.op = "get" /\ WasCached) =>
           cache = <<Entry(last.path, last.res)>>
                   \o SelectSeq(last.preCache, LAMBDA e : e.k # last.path)

\* a miss on a full cache has dropped the entry at the back and no other
C11_Witness ==
    /\ last.op = "get" /\ Returned /\ ~WasCached
    /\ Len(last.preCache) = MaxItems /\ Len(cache) = MaxItems
    /\ ~LRUHas(cache, last.preCache[MaxItems].k)
    /\ \A i \in 1..(MaxItems - 1) : LRUHas(cache, last.preCache[i].k)

(***************************************************************************)
(* The helpers of misc.py on their own: a structure is assembled from a    *)
(* field-path and a value, then looked up with the same field-path.        *)
(***************************************************************************)
FieldPaths ==
    {<<>>, A, <<"a", ".", "b">>, <<"a", ".", "b", ".", "a">>, <<".", "a">>,
     <<"a", ".">>}

MiscValues ==
    {NoneV, IntV(1), DictV(<<>>), DictV(One(A, IntV(2))), DictV(One(<<>>, IntV(3)))}

MiscDefaults == {NoneV, IntV(0)}

\* the arguments, the assembled structure and what the lookup returned
MiscCall(op, path, value, default, assembled, res) ==
    [op |-> op, path |-> path, value |-> value, dflt |-> default,
     assembled |-> assembled, res |-> res]

MiscInit ==
    /\ db = [c \in Colls |-> {}]
    /\ cache = <<>>
    /\ tasks = <<>>
    /\ \E path \in FieldPaths, value \in MiscValues, default \in MiscDefaults :
           last = MiscCall("args", path, value, default, NoneV, NoneV)

Assemble ==
    /\ last.op = "args"
    /\ last' = [last EXCEPT !.op = "create_nested_dict",
                            !.assembled = create_nested_dict(last.path, last.value)]
    /\ UNCHANGED <<db, cache, tasks>>

Lookup ==
    /\ last.op = "create_nested_dict"
    /\ last' = [last EXCEPT !.op = "find_in_nested_dict",
                            !.res = find_in_nested_dict(last.assembled, last.path,
                                                        last.dflt)]
    /\ UNCHANGED <<db, cache, tasks>>

MiscNext == Assemble \/ Lookup

\* create_nested_dict then find_in_nested_dict
MiscSpec == MiscInit /\ [][MiscNext]_vars

\* C12: looking up the field-path a structure was assembled from gives the
\* value back, for every field-path, the empty one included, where the
\* assembled structure is the value itself.
C12_RoundTrip ==
    last.op = "find_in_nested_dict" =>
        /\ last.res = last.value
        /\ last.path = <<>> => last.assembled = last.value

(***************************************************************************)
(* Callers interleaved at the awaits.  A coroutine runs from one await to   *)
(* the next without interruption; each await of the manager is one round    *)
(* trip to the store, which serves it atomically at some point after the    *)
(* coroutine was suspended.  A step of a task is therefore: the store       *)
(* serves the round trip awaited, and the coroutine runs on to its next     *)
(* await or to its return.                                                  *)
(***************************************************************************)
Callers == {"t1", "t2"}

AsyncPaths == {<<"c", ".", "1", ".", "a">>, <<"c", ".", "1">>}

AsyncValues == {IntV(1), IntV(2)}

AsyncReadPaths == {<<"c", ".", "1", ".", "a">>}

AsyncDefaults == {NoneV}

\* a coroutine: its arguments, the round trip it awaits, the document its
\* find_one returned and the error of the wrapped call
Task(op, path, value, default, pc, doc, err) ==
    [op |-> op, path |-> path, value |-> value, dflt |-> default, pc |-> pc,
     doc |-> doc, err |-> err]

Idle == Task("idle", <<>>, NoneV, NoneV, "idle", NoneV, "none")

Quiescent == \A t \in Callers : tasks[t] = Idle

Awaits(t, op, pc) == tasks[t].op = op /\ tasks[t].pc = pc

CallOf(t) == Call(tasks[t].op, tasks[t].path, tasks[t].value, tasks[t].dflt, FALSE)

AsyncInit ==
    /\ db = [c \in Colls |-> {}]
    /\ cache = <<>>
    /\ tasks = [t \in Callers |-> Idle]
    /\ last = Done(Call("init", <<>>, NoneV, NoneV, FALSE),
                   Outcome(db, "none", NoneV, <<>>), db, <<>>)

\* set up to its first await: the path is parsed and the value checked
StartSet ==
    \E t \in Callers, path \in AsyncPaths, value \in AsyncValues :
        LET p == _parse_path(path)
        IN  /\ tasks[t] = Idle
            /\ IF p.err # "none" \/ NotADocument(p.path, value)
               THEN /\ last' = Done(Call("set", path, value, NoneV, FALSE),
                                    ManagerSet(db, path, value), db, cache)
                    /\ UNCHANGED tasks
               ELSE /\ tasks' = [tasks EXCEPT ![t] =
                                   Task("set", path, value, NoneV, "find_one", NoneV, "none")]
                    /\ UNCHANGED last
            /\ UNCHANGED <<db, cache>>

\* the find_one of set is served; set awaits its update_one or insert_one
SetFind ==
    \E t \in Callers :
        LET p == _parse_path(tasks[t].path)
        IN  /\ Awaits(t, "set", "find_one")
            /\ tasks' = [tasks EXCEPT ![t].doc = find_one_id(db, p.coll, p.id),
                                      ![t].pc = "write"]
            /\ UNCHANGED <<db, cache, last>>

\* the update_one or insert_one of set is served and set returns
SetWrite ==
    \E t \in Callers :
        LET p == _parse_path(tasks[t].path)
            r == SetAfterFind(db, p, tasks[t].value, tasks[t].doc)
        IN  /\ Awaits(t, "set", "write")
            /\ db' = r.db
            /\ last' = Done(CallOf(t), r, db, cache)
            /\ tasks' = [tasks EXCEPT ![t] = Idle]
            /\ UNCHANGED cache

AsyncNext == StartSet \/ SetFind \/ SetWrite

\* callers of MongoManager.set interleaved
AsyncSpec == AsyncInit /\ [][AsyncNext]_vars

\* C14: two set calls on one path that overlap both return without error,
\* and the field holds the value of the call whose write reached the store
\* last, also when no document existed when both started.
C14_LastWriteWins ==
    (last.op = "set" /\ last.io # <<>>) =>
        /\ last.err = "none"
        /\ ManagerGet(db, last.path, NoneV).res = last.value

(***************************************************************************)
(* Callers of the cached manager interleaved at the awaits.  The cached    *)
(* get awaits the wrapped get and writes the cache when it resumes; the    *)
(* cached set awaits the wrapped set and invalidates when it resumes.      *)
(***************************************************************************)
\* the round trips a set task has made once its write was served
IOOf(t) ==
    <<"find_one", IF Truthy(tasks[t].doc) THEN "update_one" ELSE "insert_one">>

\* get up to its first await: a hit returns at once, a miss awaits find_one
CStartGet ==
    \E t \in Callers, path \in AsyncReadPaths, default \in AsyncDefaults :
        LET p == _parse_path(path)
            call == Call("get", path, NoneV, default, FALSE)
        IN  /\ tasks[t] = Idle
            /\ IF LRUHas(cache, path)
               THEN /\ cache' = LRUTouch(cache, path)
                    /\ last' = Done(call, Outcome(db, "none", LRUValue(cache, path), <<>>),
                                    db, cache)
                    /\ UNCHANGED tasks
               ELSE IF p.err # "none"
               THEN /\ last' = Done(call, Raise(db, p.err, <<>>), db, cache)
                    /\ UNCHANGED <<cache, tasks>>
               ELSE /\ tasks' = [tasks EXCEPT ![t] =
                                   Task("get", path, NoneV, default, "find_one", NoneV, "none")]
                    /\ UNCHANGED <<cache, last>>
            /\ UNCHANGED db

\* the find_one of get is served
CGetFind ==
    \E t \in Callers :
        /\ Awaits(t, "get", "find_one")
        /\ tasks' = [tasks EXCEPT ![t].doc = GetFind(db, _parse_path(tasks[t].path)),
                                  ![t].pc = "resume"]
        /\ UNCHANGED <<db, cache, last>>

\* the cached get resumes: self._cache[path] = value, return value
CGetResume ==
    \E t \in Callers :
        LET value == GetAfterFind(_parse_path(tasks[t].path), tasks[t].dflt, tasks[t].doc)
        IN  /\ Awaits(t, "get", "resume")
            /\ cache' = LRUSetItem(cache, tasks[t].path, value, MaxItems)
            /\ last' = Done(CallOf(t), Outcome(db, "none", value, <<"find_one">>), db, cache)
            /\ tasks' = [tasks EXCEPT ![t] = Idle]
            /\ UNCHANGED db

\* the update_one or insert_one of the wrapped set is served
CSetWrite ==
    \E t \in Callers :
        LET p == _parse_path(tasks[t].path)
            r == SetAfterFind(db, p, tasks[t].value, tasks[t].doc)
        IN  /\ Awaits(t, "set", "write")
            /\ db' = r.db
            /\ tasks' = [tasks EXCEPT ![t].err = r.err, ![t].pc = "uncache"]
            /\ UNCHANGED <<cache, last>>

\* the cached set resumes: self.uncache(path) unless the wrapped set raised
CSetUncache ==
    \E t \in Callers :
        LET r == ThenUncache(Outcome(db, tasks[t].err, NoneV, IOOf(t)), cache,
                             tasks[t].path)
        IN  /\ Awaits(t, "set", "uncache")
            /\ cache' = r.cache
            /\ last' = Done(CallOf(t), Outcome(db, r.err, NoneV, r.io), db, cache)
            /\ tasks' = [tasks EXCEPT ![t] = Idle]
            /\ UNCHANGED db

CachedAsyncNext ==
    \/ CStartGet \/ CGetFind \/ CGetResume
    \/ StartSet \/ SetFind \/ CSetWrite \/ CSetUncache

\* callers of CachedMongoManager.get and set interleaved
CachedAsyncSpec == AsyncInit /\ [][CachedAsyncNext]_vars

\* C13: a cached get that resumes writes into the cache the value of the
\* document its find_one returned, whatever the store holds by then and
\* whether or not an invalidation ran in between; so a get that read before
\* a set wrote and resumed after the set invalidated leaves a stale entry
\* with no call in flight.
C13_GetCachesWhatItRead ==
    [][\A t \in Callers :
           (Awaits(t, "get", "resume") /\ tasks'[t] = Idle) =>
               /\ cache'[1] = Entry(tasks[t].path,
                                    find_in_nested_dict(tasks[t].doc,
                                        _parse_path(tasks[t].path).path, tasks[t].dflt))
               /\ db' = db]_vars

\* no call in flight, the last call was a get that went to the store and
\* found no entry to overwrite, and what it cached is not what the store holds
C13_Witness ==
    /\ Quiescent
    /\ last.op = "get" /\ last.io = <<"find_one">>
    /\ ~LRUHas(last.preCache, last.path)
    /\ cache[1] = Entry(last.path, last.res)
    /\ last.res # ManagerGet(db, last.path, last.dflt).res

(***************************************************************************)
(* Which documents exist                                                   *)
(***************************************************************************)
\* the _id values of the documents of a collection
IdsOf(database, coll) == {doc[ID] : doc \in database[coll]}

Segments == Split(last.path)

SegmentId == maybe_int(Segments[2])

\* every collection but the one named holds the documents it held
OthersKept(coll) == \A c \in Colls \ {coll} : IdsOf(db, c) = IdsOf(last.pre, c)

ExistenceKept == \A c \in Colls : IdsOf(db, c) = IdsOf(last.pre, c)

\* C15: the documents that exist change only so: a set or push on an absent
\* id makes that one document present, a rem with 2 segments makes that one
\* document absent, a rem with 1 segment makes every document of the
\* collection absent; every other call, and every call that fails, leaves
\* the existing documents as they were.
C15_ExistenceTransitions ==
    LET coll == Segments[1]
        before == IdsOf(last.pre, coll)
        after == IdsOf(db, coll)
    IN  CASE ~Returned -> ExistenceKept
          [] Returned /\ last.op \in {"set", "push"} /\ SegmentId \notin before ->
                 after = before \cup {SegmentId} /\ OthersKept(coll)
          [] Returned /\ last.op = "rem" /\ Len(Segments) = 2 ->
                 after = before \ {SegmentId} /\ OthersKept(coll)
          [] Returned /\ last.op = "rem" /\ Len(Segments) = 1 ->
                 after = {} /\ OthersKept(coll)
          [] OTHER -> ExistenceKept

(***************************************************************************)
(* set and rem on documents with several fields, next to other documents   *)
(* and another collection: what a call changes and what it leaves alone.   *)
(***************************************************************************)
FrameColls == {<<"c">>, <<"d">>}

FrameSetPaths ==
    {<<"c", ".", "1">>, <<"c", ".", "1", ".", "a">>, <<"c", ".", "1", ".", "b">>,
     <<"c", ".", "1", ".", "a", ".", "b">>, <<"c", ".", "2">>, <<"d", ".", "1">>}

FrameValues == {IntV(1), DictV(One(A, IntV(2))), DictV(One(ID, IntV(2)))}

FrameRemPaths ==
    {<<"c", ".", "1">>, <<"c", ".", "1", ".", "a">>, <<"c", ".", "1", ".", "a", ".", "a">>,
     <<"c", ".", "1", ".", "b">>, <<"c", ".", "1", ".", "_", "i", "d">>,
     <<"c", ".", "2", ".", "a">>, <<"d", ".", "1", ".", "a">>, <<"d">>}

FrameInit ==
    /\ db = [c \in FrameColls |-> {}]
    /\ cache = <<>>
    /\ tasks = <<>>
    /\ last = Done(Call("init", <<>>, NoneV, NoneV, FALSE),
                   Outcome(db, "none", NoneV, <<>>), db, <<>>)

FrameSet ==
    \E path \in FrameSetPaths, value \in FrameValues :
        LET r == ManagerSet(db, path, value)
        IN  /\ db' = r.db
            /\ last' = Done(Call("set", path, value, NoneV, FALSE), r, db, cache)
            /\ UNCHANGED <<cache, tasks>>

FrameRem ==
    \E path \in FrameRemPaths :
        LET r == ManagerRem(db, path)
        IN  /\ db' = r.db
            /\ last' = Done(Call("rem", path, NoneV, NoneV, FALSE), r, db, cache)
            /\ UNCHANGED <<cache, tasks>>

FrameNext == FrameSet \/ FrameRem

\* MongoManager.set and rem over two collections
FrameSpec == FrameInit /\ [][FrameNext]_vars

\* the documents other than the one a call addressed are what they were
OtherDocsKept(coll, id) ==
    \A c \in DOMAIN db :
        /\ IdsOf(db, c) \ (IF c = coll THEN {id} ELSE {})
               = IdsOf(last.pre, c) \ (IF c = coll THEN {id} ELSE {})
        /\ \A doc \in last.pre[c] : (c # coll \/ doc[ID] # id) => doc \in db[c]

\* a set with a 2-segment path and a mapping on a document that exists
SetOnDocument ==
    /\ last.op = "set" /\ Existed
    /\ LastPath.path = <<>> /\ last.value.t = "dict"

\* C16 as stated: a set with a 2-segment path and a mapping on a document
\* that exists replaces the body: afterwards the document is _id plus the
\* keys of value and nothing else.
C16_SetReplacesBody ==
    (SetOnDocument /\ Returned) =>
        /\ HasDoc(db, LastPath.coll, LastPath.id)
        /\ TheDoc(db, LastPath.coll, LastPath.id)
               = Merge(last.value.d, One(ID, LastPath.id))

\* C16: a set with a 2-segment path and a mapping on a document that exists
\* merges: every top-level key of value holds its value, every other
\* top-level field of the document is kept, _id and every other document
\* are unchanged; when value has an _id that differs from the document's,
\* the call fails and the store is unchanged.
C16_SetMergesBody ==
    SetOnDocument =>
        LET before == TheDoc(last.pre, LastPath.coll, LastPath.id)
            fails == ID \in DOMAIN last.value.d /\ last.value.d[ID] # LastPath.id
        IN  /\ Returned <=> ~fails
            /\ ~Returned => db = last.pre
            /\ Returned =>
                 /\ HasDoc(db, LastPath.coll, LastPath.id)
                 /\ LET after == TheDoc(db, LastPath.coll, LastPath.id)
                    IN  /\ DOMAIN after = DOMAIN before \cup DOMAIN last.value.d
                        /\ \A k \in DOMAIN last.value.d : after[k] = last.value.d[k]
                        /\ \A k \in DOMAIN before \ DOMAIN last.value.d :
                               after[k] = before[k]
                        /\ after[ID] = LastPath.id
                 /\ OtherDocsKept(LastPath.coll, LastPath.id)

\* the set returned and a field that value does not name is still there
C16_Witness ==
    /\ SetOnDocument /\ Returned
    /\ \E k \in DOMAIN TheDoc(last.pre, LastPath.coll, LastPath.id) :
           /\ k # ID /\ k \notin DOMAIN last.value.d
           /\ k \in DOMAIN TheDoc(db, LastPath.coll, LastPath.id)

\* the paths inside a document that are looked at before and after a rem
FrameProbes == {<<A>>, <<B>>, <<A, A>>, <<A, B>>, <<ID>>}

\* one key sequence is the other or leads to it
Related(q, keys) ==
    LET n == IF Len(q) < Len(keys) THEN Len(q) ELSE Len(keys)
    IN  SubSeq(q, 1, n) = SubSeq(keys, 1, n)

\* a rem with 3 or more segments, its collection, id and field keys
RemOfField == last.op = "rem" /\ Len(SplitN(last.path, 2)) = 3

RemKeys == Split(SplitN(last.path, 2)[3])

\* the value at keys in doc, None when there is none
FieldAt(doc, keys) == FindKeys(DictV(doc), keys, NoneV)

\* C17: a rem with 3 or more segments removes the field addressed and no
\* other: every field of the document beside it, the document's existence
\* and _id, and every other document and collection are as before; when the
\* document or the field does not exist the store is unchanged and the call
\* returns.
C17_RemFieldOnly ==
    RemOfField =>
        LET coll == Segments[1]
            id == SegmentId
            had == HasDoc(last.pre, coll, id)
        IN  /\ OtherDocsKept(coll, id)
            /\ HasDoc(db, coll, id) <=> had
            /\ had =>
                 LET before == TheDoc(last.pre, coll, id)
                     after == TheDoc(db, coll, id)
                 IN  /\ Returned => FieldAt(after, RemKeys) = NoneV
                     /\ FieldAt(before, RemKeys) = NoneV => (Returned /\ db = last.pre)
                     /\ \A q \in FrameProbes :
                            ~Related(q, RemKeys) => FieldAt(after, q) = FieldAt(before, q)
                     /\ DOMAIN before \ {RemKeys[1]} \subseteq DOMAIN after
                     /\ DOMAIN after \subseteq DOMAIN before
                     /\ ~Returned => db = last.pre
            /\ ~had => (Returned /\ db = last.pre)

\* a nested field went and the field beside it in the same mapping stayed
C17_Witness ==
    /\ RemOfField /\ Returned /\ Len(RemKeys) = 2
    /\ HasDoc(last.pre, Segments[1], SegmentId)
    /\ FieldAt(TheDoc(last.pre, Segments[1], SegmentId), RemKeys) # NoneV
    /\ FieldAt(TheDoc(db, Segments[1], SegmentId), RemKeys) = NoneV
    /\ FieldAt(TheDoc(db, Segments[1], SegmentId), <<A, B>>) # NoneV

(***************************************************************************)
(* The cached manager read with more than one default                      *)
(***************************************************************************)
CGetDefault ==
    \E path \in CachedReadPaths, default \in Defaults :
        LET r == CachedGet(db, cache, path, default, MaxItems)
        IN  /\ db' = r.db
            /\ cache' = r.cache
            /\ UNCHANGED tasks
            /\ last' = CachedDone(Call("get", path, NoneV, default, FALSE), r)

CachedDefaultsNext == CGetDefault \/ CSet \/ CPush \/ CPull \/ CRem

\* the CachedMongoManager, its reads with either default
CachedDefaultsSpec == Init /\ [][CachedDefaultsNext]_vars

\* the entries of a cache, their order put aside
EntriesOf(c) == {c[i] : i \in 1..Len(c)}

\* C18: a cached get of a path that has an entry returns the entry's value,
\* whatever default it was given and whatever the store holds, makes no
\* round trip, and leaves the store and the cached keys and values alone.
C18_HitReturnsCached ==
    (last.op = "get" /\ WasCached) =>
        /\ Returned
        /\ last.res = LRUValue(last.preCache, last.path)
        /\ last.io = <<>>
        /\ db = last.pre
        /\ EntriesOf(cache) = EntriesOf(last.preCache)
        /\ Len(cache) = Len(last.preCache)

\* a hit returned a default cached by an earlier miss, though the get was
\* given another default and the store by now holds a value
C18_Witness ==
    /\ last.op = "get" /\ WasCached
    /\ last.res = IntV(0) /\ last.dflt = NoneV
    /\ ManagerGet(db, last.path, last.dflt).res \notin {NoneV, IntV(0)}

\* C19: when cached calls run one at a time and every read uses the same
\* default, after a cached set, push, pull or rem that returned every entry
\* left in the cache equals what an uncached get of its key returns from
\* the store, entries for ancestors and descendants of the path included.
C19_NoStaleEntry ==
    (last.op \in Mutators /\ Returned) =>
        \A i \in 1..Len(cache) :
            \A default \in CachedDefaults :
                cache[i].v = ManagerGet(db, cache[i].k, default).res

\* C20: after a set or push that returned, the collection named by the
\* first segment holds a document whose _id is the id parsed from the
\* second segment, whatever the value, a mapping with an "_id" key included.
C20_IdFromPath ==
    (last.op \in {"set", "push"} /\ Returned) =>
        HasDoc(db, LastPath.coll, LastPath.id)

====
